---- MODULE Spec2Model ----
(***************************************************************************)
(* Model of danrpg's src/main.rs: a winit window, a wgpu surface, one      *)
(* uniform buffer holding the resolution, and the event-loop closure that  *)
(* reconfigures the surface on resize and draws one full-screen quad on    *)
(* every redraw request.                                                   *)
(*                                                                         *)
(* The program is single threaded.  Each startup statement group of        *)
(* main/run is one action; each invocation of the event-loop closure is    *)
(* one action that applies the whole handler.  The calls a handler makes   *)
(* on the surface, the window, the encoder and the queue are appended, in  *)
(* program order, to `trace`, which is emptied at the start of every       *)
(* invocation.                                                             *)
(***************************************************************************)
EXTENDS Integers, Sequences, FiniteSets

\* Window widths and heights range over 1..MaxDim.
MaxDim == 2
\* Window events the windowing system holds undelivered.
MaxQueue == 2
\* Images of the swapchain that get_current_texture may hand out.
MaxImages == 2

VARIABLES
    pc,                     \* position of the program
    panic,                  \* message of the unwrap/expect that stopped it
    window,                 \* winit Window
    adapter,                \* result of request_adapter
    device,                 \* result of request_device (device and queue)
    uniform_buffer,         \* contents of the buffer bound at slot 0
    bind_group,             \* the bind group
    render_pipeline,        \* the render pipeline
    swapchain_capabilities, \* surface.get_capabilities(adapter)
    swapchain_format,       \* swapchain_capabilities.formats[0]
    config,                 \* the SurfaceConfiguration the closure owns
    surface,                \* the wgpu Surface
    queue,                  \* window events not yet delivered, oldest first
    redraw_requested,       \* a RedrawRequested is pending for the window
    control_flow,           \* the event loop's ControlFlow
    trace,                  \* calls made by the latest closure invocation
    last_event,             \* event of the latest closure invocation
    last_resize,            \* size of the latest Resized event handled
    repeated                \* the latest two invocations had the same Resized

vars ==
    <<pc, panic, window, adapter, device, uniform_buffer, bind_group,
      render_pipeline, swapchain_capabilities, swapchain_format, config,
      surface, queue, redraw_requested, control_flow, trace, last_event,
      last_resize, repeated>>

----------------------------------------------------------------------------
\* Values

Dims == 1..MaxDim

\* winit::dpi::PhysicalSize<u32> as <<width, height>>
Sizes == Dims \X Dims

Images == 1..MaxImages

NoSize == <<0, 0>>

NoWindow == [created |-> FALSE, visible |-> FALSE, inner_size |-> NoSize]

NoConfig ==
    [usage |-> "", format |-> "", width |-> 0, height |-> 0,
     present_mode |-> "", alpha_mode |-> "", view_formats |-> <<>>]

NoCapabilities == [formats |-> <<>>, present_modes |-> <<>>, alpha_modes |-> <<>>]

NoSurface == [created |-> FALSE, config |-> NoConfig, acquired |-> 0]

NoBuffer == <<>>

NoBindGroup == [binding |-> 0, resource |-> "", visibility |-> ""]

NoPipeline == [vertex |-> "", fragment |-> "", target |-> "", buffers |-> <<>>]

NoRange == <<0, 0, 0, 0>>

\* What surface.get_capabilities can report for an adapter that was requested
\* as compatible with the surface: at least one format, at least one alpha
\* mode, Fifo among the present modes.
Capabilities ==
    { [formats |-> <<"Bgra8UnormSrgb", "Rgba8UnormSrgb">>,
       present_modes |-> <<"Fifo">>,
       alpha_modes |-> <<"Opaque">>],
      [formats |-> <<"Rgba8UnormSrgb", "Bgra8UnormSrgb">>,
       present_modes |-> <<"Mailbox", "Fifo">>,
       alpha_modes |-> <<"PostMultiplied", "Opaque">>] }

\* Events the closure is invoked with.
NoEvent == [type |-> "None", size |-> NoSize]

Resized(size) == [type |-> "Resized", size |-> size]

CloseRequested == [type |-> "CloseRequested", size |-> NoSize]

RedrawRequested == [type |-> "RedrawRequested", size |-> NoSize]

\* Any event the match has no arm for (NewEvents, MainEventsCleared,
\* keyboard and mouse input, ...).
OtherEvent == [type |-> "Other", size |-> NoSize]

LoopDestroyed == [type |-> "LoopDestroyed", size |-> NoSize]

WindowEvents == {Resized(s) : s \in Sizes} \cup {CloseRequested, OtherEvent}

\* One call recorded in trace: the operation, the configuration it used, the
\* swapchain image or the bind slot it names, the object, the draw ranges.
Call(op, cfg, index, obj, range) ==
    [op |-> op, cfg |-> cfg, index |-> index, obj |-> obj, range |-> range]

----------------------------------------------------------------------------
\* `as f32` on a u32: exact below 2^24, round to nearest even above.

RECURSIVE Log2Floor(_)
Log2Floor(n) == IF n < 2 THEN 0 ELSE 1 + Log2Floor(n \div 2)

AsF32(n) ==
    IF n < 16777216 THEN n
    ELSE LET ulp == 2 ^ (Log2Floor(n) - 23)
             q == n \div ulp
             r == n % ulp
             half == ulp \div 2
         IN IF r > half \/ (r = half /\ q % 2 = 1)
            THEN (q + 1) * ulp
            ELSE q * ulp

----------------------------------------------------------------------------
\* Startup helpers

\* create_device_queue without the expect on the adapter.
create_device_queue_NoExpect(adapter_found, device_granted) ==
    IF ~device_granted
    THEN [adapter |-> IF adapter_found THEN "Some" ELSE "None",
          device |-> "none", panic |-> "Failed to create device"]
    ELSE [adapter |-> IF adapter_found THEN "Some" ELSE "None",
          device |-> "created", panic |-> "none"]

\* create_device_queue: the adapter request, then the device request.
create_device_queue(adapter_found, device_granted) ==
    IF ~adapter_found
    THEN [adapter |-> "None", device |-> "none",
          panic |-> "Failed to find an appropriate adapter"]
    ELSE IF ~device_granted
    THEN [adapter |-> "Some", device |-> "none",
          panic |-> "Failed to create device"]
    ELSE [adapter |-> "Some", device |-> "created", panic |-> "none"]

\* create_uniforms: the window's inner size as two f32.
create_uniforms(w) ==
    [resolution |-> <<AsF32(w.inner_size[1]), AsF32(w.inner_size[2])>>]

\* create_uniform_buffer: a buffer initialised with the record's contents.
create_uniform_buffer(uniforms) == uniforms.resolution

\* create_bind_group: binding 0 is the whole uniform buffer, fragment stage.
create_bind_group(buffer_name) ==
    [binding |-> 0, resource |-> buffer_name, visibility |-> "FRAGMENT"]

\* get_swapchain_caps_and_format: the first advertised format.
get_swapchain_format(caps) == caps.formats[1]

\* create_render_pipeline
create_render_pipeline(format) ==
    [vertex |-> "vs_main", fragment |-> "fs_main", target |-> format,
     buffers |-> <<>>]

\* create_surface_config taking the first advertised present mode.
create_surface_config_FirstPresentMode(caps, format, size) ==
    [usage |-> "RENDER_ATTACHMENT",
     format |-> format,
     width |-> size[1],
     height |-> size[2],
     present_mode |-> caps.present_modes[1],
     alpha_mode |-> caps.alpha_modes[1],
     view_formats |-> <<>>]

\* create_surface_config
create_surface_config(caps, format, size) ==
    [usage |-> "RENDER_ATTACHMENT",
     format |-> format,
     width |-> size[1],
     height |-> size[2],
     present_mode |-> "Fifo",
     alpha_mode |-> caps.alpha_modes[1],
     view_formats |-> <<>>]

----------------------------------------------------------------------------
\* Calls the closure makes.  s is the state the closure can change:
\* [config, surface, redraw_requested, control_flow, trace, panic].

\* surface.configure(&device, &config)
surface_configure(s) ==
    [s EXCEPT !.surface.config = s.config,
              !.trace = Append(@, Call("configure", s.config, 0, "surface", NoRange))]

\* window.request_redraw()
request_redraw(s) ==
    [s EXCEPT !.redraw_requested = TRUE,
              !.trace = Append(@, Call("request_redraw", NoConfig, 0, "window", NoRange))]

\* create_frame that goes on without a frame when acquisition fails.
create_frame_NoExpect(s, image) ==
    IF image = 0
    THEN [s EXCEPT !.trace = Append(@, Call("get_current_texture_err",
                                            s.surface.config, 0, "surface", NoRange))]
    ELSE [s EXCEPT !.surface.acquired = image,
                   !.trace = Append(@, Call("get_current_texture",
                                            s.surface.config, image, "surface", NoRange))]

\* create_frame: surface.get_current_texture().expect(..); image = 0 is Err.
create_frame(s, image) ==
    IF image = 0
    THEN [s EXCEPT !.panic = "Failed to acquire next swap chain texture",
                   !.trace = Append(@, Call("get_current_texture_err",
                                            s.surface.config, 0, "surface", NoRange))]
    ELSE [s EXCEPT !.surface.acquired = image,
                   !.trace = Append(@, Call("get_current_texture",
                                            s.surface.config, image, "surface", NoRange))]

\* A call that only records: create_view, create_command_encoder,
\* begin_render_pass, set_pipeline, set_bind_group, draw, the end of the
\* render pass scope, finish, submit.
record(s, op, image, obj, range) ==
    [s EXCEPT !.trace = Append(@, Call(op, NoConfig, image, obj, range))]

\* frame.present()
present(s, image) ==
    [s EXCEPT !.surface.acquired = IF @ = image THEN 0 ELSE @,
              !.trace = Append(@, Call("present", NoConfig, image, "frame", NoRange))]

----------------------------------------------------------------------------
\* The arms of the closure's match.

\* The Resized arm asking for the redraw before it reconfigures.
OnResized_RedrawFirst(s, size) ==
    LET s1 == [s EXCEPT !.config.width = size[1], !.config.height = size[2]]
        s2 == request_redraw(s1)
    IN surface_configure(s2)

\* The Resized arm doing nothing when the size did not change.
OnResized_SkipUnchanged(s, size) ==
    LET s1 == [s EXCEPT !.config.width = size[1], !.config.height = size[2]]
        s2 == surface_configure(s1)
    IN IF s.config.width = size[1] /\ s.config.height = size[2]
       THEN s
       ELSE request_redraw(s2)

\* Event::WindowEvent { event: WindowEvent::Resized(size), .. }
OnResized(s, size) ==
    LET s1 == [s EXCEPT !.config.width = size[1], !.config.height = size[2]]
        s2 == surface_configure(s1)
    IN request_redraw(s2)

\* The RedrawRequested arm drawing one triangle: draw(0..3, 0..1).
OnRedrawRequested_OneTriangle(s, image) ==
    LET s1 == create_frame(s, image)
        s2 == record(s1, "create_view", image, "frame.texture", NoRange)
        s3 == record(s2, "create_command_encoder", 0, "device", NoRange)
        s4 == record(s3, "begin_render_pass", image, "Clear(BLACK)", NoRange)
        s5 == record(s4, "set_pipeline", 0, "render_pipeline", NoRange)
        s6 == record(s5, "set_bind_group", 0, "bind_group", NoRange)
        s7 == record(s6, "draw", 0, "rpass", <<0, 3, 0, 1>>)
        s8 == record(s7, "end_render_pass", image, "rpass", NoRange)
        s9 == record(s8, "finish", 0, "encoder", NoRange)
        s10 == record(s9, "submit", 0, "queue", NoRange)
    IN IF s1.panic # "none" THEN s1 ELSE present(s10, image)

\* The RedrawRequested arm presenting the frame before it submits.
OnRedrawRequested_PresentFirst(s, image) ==
    LET s1 == create_frame(s, image)
        s2 == record(s1, "create_view", image, "frame.texture", NoRange)
        s3 == record(s2, "create_command_encoder", 0, "device", NoRange)
        s4 == record(s3, "begin_render_pass", image, "Clear(BLACK)", NoRange)
        s5 == record(s4, "set_pipeline", 0, "render_pipeline", NoRange)
        s6 == record(s5, "set_bind_group", 0, "bind_group", NoRange)
        s7 == record(s6, "draw", 0, "rpass", <<0, 6, 0, 1>>)
        s8 == record(s7, "end_render_pass", image, "rpass", NoRange)
        s9 == record(s8, "finish", 0, "encoder", NoRange)
        s10 == present(s9, image)
    IN IF s1.panic # "none" THEN s1 ELSE record(s10, "submit", 0, "queue", NoRange)

\* Event::RedrawRequested(_)
OnRedrawRequested(s, image) ==
    LET s1 == create_frame(s, image)
        s2 == record(s1, "create_view", image, "frame.texture", NoRange)
        s3 == record(s2, "create_command_encoder", 0, "device", NoRange)
        s4 == record(s3, "begin_render_pass", image, "Clear(BLACK)", NoRange)
        s5 == record(s4, "set_pipeline", 0, "render_pipeline", NoRange)
        s6 == record(s5, "set_bind_group", 0, "bind_group", NoRange)
        s7 == record(s6, "draw", 0, "rpass", <<0, 6, 0, 1>>)
        s8 == record(s7, "end_render_pass", image, "rpass", NoRange)
        s9 == record(s8, "finish", 0, "encoder", NoRange)
        s10 == record(s9, "submit", 0, "queue", NoRange)
    IN IF s1.panic # "none" THEN s1 ELSE present(s10, image)

\* The CloseRequested arm leaving the control flow alone.
OnCloseRequested_NoExit(s) == s

\* Event::WindowEvent { event: WindowEvent::CloseRequested, .. }
OnCloseRequested(s) == [s EXCEPT !.control_flow = "Exit"]

\* The catch-all arm asking for a redraw.
OnOther_Redraws(s) == request_redraw(s)

\* _ => {}
OnOther(s) == s

\* The closure given to event_loop.run.
Closure(s, event, image) ==
    LET s0 == [s EXCEPT !.control_flow = "Wait", !.trace = <<>>]
    IN CASE event.type = "Resized" -> OnResized(s0, event.size)
         [] event.type = "RedrawRequested" -> OnRedrawRequested(s0, image)
         [] event.type = "CloseRequested" -> OnCloseRequested(s0)
         [] OTHER -> OnOther(s0)

----------------------------------------------------------------------------
\* Initial state: the process has started, main has not run yet.

Init ==
    /\ pc = "main"
    /\ panic = "none"
    /\ window = NoWindow
    /\ adapter = "unrequested"
    /\ device = "none"
    /\ uniform_buffer = NoBuffer
    /\ bind_group = NoBindGroup
    /\ render_pipeline = NoPipeline
    /\ swapchain_capabilities = NoCapabilities
    /\ swapchain_format = ""
    /\ config = NoConfig
    /\ surface = NoSurface
    /\ queue = <<>>
    /\ redraw_requested = FALSE
    /\ control_flow = "Poll"
    /\ trace = <<>>
    /\ last_event = NoEvent
    /\ last_resize = NoSize
    /\ repeated = FALSE

\* A failed unwrap or expect: the process stops with the message.
Panic(message) ==
    /\ pc' = "panicked"
    /\ panic' = message

----------------------------------------------------------------------------
\* Startup: main, then run up to the call of event_loop.run.

\* main: EventLoop::new(), Window::new(&event_loop).unwrap().  A window made
\* with the default attributes is visible.
Main ==
    /\ pc = "main"
    /\ \E created \in BOOLEAN, size \in Sizes :
          IF created
          THEN /\ window' = [created |-> TRUE, visible |-> TRUE, inner_size |-> size]
               /\ pc' = "create_surface"
               /\ UNCHANGED panic
          ELSE /\ Panic("Window::new")
               /\ UNCHANGED window
    /\ UNCHANGED <<adapter, device, uniform_buffer, bind_group, render_pipeline,
                   swapchain_capabilities, swapchain_format, config, surface,
                   queue, redraw_requested, control_flow, trace, last_event,
                   last_resize, repeated>>

\* run: create_instance(), create_surface(&instance, &window).unwrap()
CreateSurface ==
    /\ pc = "create_surface"
    /\ \E created \in BOOLEAN :
          IF created
          THEN /\ surface' = [surface EXCEPT !.created = TRUE]
               /\ pc' = "create_device_queue"
               /\ UNCHANGED panic
          ELSE /\ Panic("create_surface")
               /\ UNCHANGED surface
    /\ UNCHANGED <<window, adapter, device, uniform_buffer, bind_group,
                   render_pipeline, swapchain_capabilities, swapchain_format,
                   config, queue, redraw_requested, control_flow, trace,
                   last_event, last_resize, repeated>>

\* run: create_device_queue(&instance, &surface).await
CreateDeviceQueue ==
    /\ pc = "create_device_queue"
    /\ \E adapter_found \in BOOLEAN, device_granted \in BOOLEAN :
          LET r == create_device_queue(adapter_found, device_granted)
          IN /\ adapter' = r.adapter
             /\ device' = r.device
             /\ IF r.panic = "none"
                THEN pc' = "create_resources" /\ UNCHANGED panic
                ELSE Panic(r.panic)
    /\ UNCHANGED <<window, uniform_buffer, bind_group, render_pipeline,
                   swapchain_capabilities, swapchain_format, config, surface,
                   queue, redraw_requested, control_flow, trace, last_event,
                   last_resize, repeated>>

\* run: create_shader, create_uniforms, create_uniform_buffer,
\* create_bind_group, create_pipeline_layout
CreateResources ==
    /\ pc = "create_resources"
    /\ uniform_buffer' = create_uniform_buffer(create_uniforms(window))
    /\ bind_group' = create_bind_group("uniform_buffer")
    /\ pc' = "get_swapchain"
    /\ UNCHANGED <<panic, window, adapter, device, render_pipeline,
                   swapchain_capabilities, swapchain_format, config, surface,
                   queue, redraw_requested, control_flow, trace, last_event,
                   last_resize, repeated>>

\* run: get_swapchain_caps_and_format, create_render_pipeline
GetSwapchain ==
    /\ pc = "get_swapchain"
    /\ \E caps \in Capabilities :
          /\ swapchain_capabilities' = caps
          /\ swapchain_format' = get_swapchain_format(caps)
          /\ render_pipeline' = create_render_pipeline(get_swapchain_format(caps))
    /\ pc' = "configure"
    /\ UNCHANGED <<panic, window, adapter, device, uniform_buffer, bind_group,
                   config, surface, queue, redraw_requested, control_flow,
                   trace, last_event, last_resize, repeated>>

\* run: window.inner_size(), create_surface_config, surface.configure, and
\* the call of event_loop.run
ConfigureSurface ==
    /\ pc = "configure"
    /\ LET c == create_surface_config(swapchain_capabilities, swapchain_format,
                                      window.inner_size)
       IN /\ config' = c
          /\ surface' = [surface EXCEPT !.config = c]
    /\ pc' = "loop"
    /\ UNCHANGED <<panic, window, adapter, device, uniform_buffer, bind_group,
                   render_pipeline, swapchain_capabilities, swapchain_format,
                   queue, redraw_requested, control_flow, trace, last_event,
                   last_resize, repeated>>

----------------------------------------------------------------------------
\* The windowing system.  Events for the window can arrive as soon as the
\* window exists; they are delivered once the loop runs.  After the loop's
\* control flow is Exit the loop finishes the iteration it is in (the events
\* and the redraw request it already holds) and takes in nothing new.

Alive == window.created /\ pc \notin {"panicked", "exited"}

\* The user resizes the window, asks to close it, or anything else happens.
OsEvent ==
    /\ Alive
    /\ control_flow # "Exit"
    /\ Len(queue) < MaxQueue
    /\ \E e \in WindowEvents : queue' = Append(queue, e)
    /\ UNCHANGED <<pc, panic, window, adapter, device, uniform_buffer,
                   bind_group, render_pipeline, swapchain_capabilities,
                   swapchain_format, config, surface, redraw_requested,
                   control_flow, trace, last_event, last_resize, repeated>>

\* The windowing system asks for a repaint (the window is mapped, exposed).
OsRedraw ==
    /\ Alive
    /\ control_flow # "Exit"
    /\ ~redraw_requested
    /\ redraw_requested' = TRUE
    /\ UNCHANGED <<pc, panic, window, adapter, device, uniform_buffer,
                   bind_group, render_pipeline, swapchain_capabilities,
                   swapchain_format, config, surface, queue, control_flow,
                   trace, last_event, last_resize, repeated>>

----------------------------------------------------------------------------
\* event_loop.run: one invocation of the closure with `event`.  `pending`
\* is the window's redraw request as the closure finds it.  ControlFlow::Exit
\* is sticky: once the loop's control flow is Exit, what the closure assigns
\* is discarded.
Invoke(event, image, pending) ==
    LET s == [config |-> config, surface |-> surface,
              redraw_requested |-> pending, control_flow |-> control_flow,
              trace |-> trace, panic |-> "none"]
        r == Closure(s, event, image)
    IN /\ config' = r.config
       /\ surface' = r.surface
       /\ redraw_requested' = r.redraw_requested
       /\ control_flow' = IF control_flow = "Exit" THEN "Exit" ELSE r.control_flow
       /\ trace' = r.trace
       /\ last_event' = event
       /\ last_resize' = IF event.type = "Resized" THEN event.size ELSE last_resize
       /\ repeated' = (event.type = "Resized" /\ event = last_event)
       /\ panic' = r.panic
       /\ pc' = IF r.panic # "none" THEN "panicked"
                ELSE IF event.type = "LoopDestroyed" THEN "exited"
                ELSE pc
       /\ UNCHANGED <<window, adapter, device, uniform_buffer, bind_group,
                      render_pipeline, swapchain_capabilities, swapchain_format>>

\* The oldest undelivered window event is delivered.
DeliverWindowEvent ==
    /\ pc = "loop"
    /\ queue # <<>>
    /\ queue' = Tail(queue)
    /\ Invoke(Head(queue), 0, redraw_requested)

\* With no window event left, a pending redraw request is delivered as
\* RedrawRequested; get_current_texture yields an image or fails (image 0).
DeliverRedraw ==
    /\ pc = "loop"
    /\ queue = <<>>
    /\ redraw_requested
    /\ UNCHANGED queue
    /\ \E image \in {0} \cup Images : Invoke(RedrawRequested, image, FALSE)

\* Control flow Exit and nothing left to deliver: the closure is invoked a
\* last time with LoopDestroyed and the process exits.
DeliverLoopDestroyed ==
    /\ pc = "loop"
    /\ control_flow = "Exit"
    /\ queue = <<>>
    /\ ~redraw_requested
    /\ UNCHANGED queue
    /\ Invoke(LoopDestroyed, 0, FALSE)

Next ==
    \/ Main
    \/ CreateSurface
    \/ CreateDeviceQueue
    \/ CreateResources
    \/ GetSwapchain
    \/ ConfigureSurface
    \/ OsEvent
    \/ OsRedraw
    \/ DeliverWindowEvent
    \/ DeliverRedraw
    \/ DeliverLoopDestroyed

Spec == Init /\ [][Next]_vars

----------------------------------------------------------------------------
\* Vocabulary of the properties

AcquireFailed == "Failed to acquire next swap chain texture"

\* event_loop.run has been called.
LoopEntered ==
    \/ pc \in {"loop", "exited"}
    \/ pc = "panicked" /\ panic = AcquireFailed

\* Positions in trace t of the calls of operation op.
Indices(t, op) == {i \in 1..Len(t) : t[i].op = op}

\* The only position in t of op, when op occurs exactly once; 0 otherwise.
Only(t, op) ==
    IF Cardinality(Indices(t, op)) = 1
    THEN CHOOSE i \in Indices(t, op) : TRUE
    ELSE 0

GpuWork == {"configure", "get_current_texture", "submit", "present"}

\* The surface configuration as run built it at startup.
StartupConfig ==
    [usage |-> "RENDER_ATTACHMENT",
     format |-> swapchain_capabilities.formats[1],
     width |-> window.inner_size[1],
     height |-> window.inner_size[2],
     present_mode |-> "Fifo",
     alpha_mode |-> swapchain_capabilities.alpha_modes[1],
     view_formats |-> <<>>]

\* The step is an invocation of the closure with a window event.
WindowEventStep == pc = "loop" /\ queue # <<>> /\ queue' = Tail(queue)

\* The step is an invocation of the closure with RedrawRequested.
RedrawStep ==
    /\ pc = "loop" /\ queue = <<>> /\ queue' = <<>>
    /\ redraw_requested /\ last_event' = RedrawRequested

\* The step is the invocation of the closure with LoopDestroyed.
LoopDestroyedStep == pc = "loop" /\ pc' = "exited"

----------------------------------------------------------------------------
\* C1: once the loop runs, whatever events were handled, the stored
\* configuration and the one applied to the surface have the first advertised
\* format, present mode Fifo and the first advertised alpha mode; they differ
\* from the startup configuration in width and height only.
C1_ConfigInvariant ==
    LoopEntered =>
        /\ config.format = swapchain_capabilities.formats[1]
        /\ config.present_mode = "Fifo"
        /\ config.alpha_mode = swapchain_capabilities.alpha_modes[1]
        /\ config = [StartupConfig EXCEPT !.width = config.width,
                                          !.height = config.height]
        /\ surface.config = config

\* The loop has ended after a resize to a size other than the startup size,
\* on a surface that advertises another present mode before Fifo.
C1_Witness ==
    /\ pc = "exited"
    /\ last_resize # NoSize
    /\ <<config.width, config.height>> # window.inner_size
    /\ swapchain_capabilities.present_modes[1] # "Fifo"

\* C2: after a Resized(w, h) has been handled the uniform buffer holds
\* (w, h), and at every redraw it holds the configuration's width and height.
C2_UniformFollowsResize ==
    /\ last_event.type = "Resized" =>
          uniform_buffer = <<AsF32(last_event.size[1]), AsF32(last_event.size[2])>>
    /\ last_event.type = "RedrawRequested" =>
          uniform_buffer = <<AsF32(config.width), AsF32(config.height)>>

\* C3 (state part): a redraw handled after a Resized(w, h) finds the stored
\* configuration at w x h and acquires its frame from a surface configured
\* with exactly that configuration; the Resized arm reconfigures the surface
\* with the new size first and asks for the redraw after it.
C3_ResizeApplied ==
    /\ last_event.type = "RedrawRequested" /\ last_resize # NoSize =>
          /\ config.width = last_resize[1]
          /\ config.height = last_resize[2]
          /\ trace # <<>>
          /\ trace[1].op \in {"get_current_texture", "get_current_texture_err"}
          /\ trace[1].cfg = config
    /\ last_event.type = "Resized" =>
          /\ Only(trace, "configure") # 0
          /\ Only(trace, "request_redraw") # 0
          /\ Only(trace, "configure") < Only(trace, "request_redraw")
          /\ trace[Only(trace, "configure")].cfg = config
          /\ config.width = last_event.size[1]
          /\ config.height = last_event.size[2]
          /\ redraw_requested

\* C3: events are handled in the order of their delivery, and a resize is
\* applied in full (configuration and reconfigure) before any later redraw.
C3_ResizeBeforeRedraw ==
    /\ []C3_ResizeApplied
    /\ [][WindowEventStep => last_event' = Head(queue)]_vars
    /\ [][RedrawStep => surface.config = config]_vars

\* A redraw drew after a resize to a size other than the startup size.
C3_Witness ==
    /\ last_event = RedrawRequested
    /\ panic = "none"
    /\ last_resize # NoSize
    /\ last_resize # window.inner_size
    /\ trace # <<>>

\* C4: handling Resized(w, h) right after Resized(w, h) leaves the
\* configuration (stored and applied) as the first left it, and every
\* handled Resized makes exactly one reconfigure and one redraw request.
C4_ResizeIdempotent ==
    /\ [](last_event.type = "Resized" =>
             /\ Cardinality(Indices(trace, "configure")) = 1
             /\ Cardinality(Indices(trace, "request_redraw")) = 1
             /\ Len(trace) = 2)
    /\ [][WindowEventStep /\ Head(queue).type = "Resized"
            /\ Head(queue) = last_event
          => /\ config' = config
             /\ surface'.config = surface.config
             /\ Cardinality(Indices(trace', "configure")) = 1
             /\ Cardinality(Indices(trace', "request_redraw")) = 1]_vars

\* The same Resized has just been handled twice in a row.
C4_Witness ==
    /\ repeated
    /\ last_event.type = "Resized"
    /\ last_event.size # window.inner_size

\* C5: a redraw whose frame was acquired records one render pass that clears
\* to black, sets the render pipeline and the bind group at slot 0, and draws
\* once, vertices 0..6 and instances 0..1, whatever the size and however many
\* resizes came before.
C5_DrawCallShape ==
    last_event = RedrawRequested /\ panic = "none" =>
        LET b == Only(trace, "begin_render_pass")
            p == Only(trace, "set_pipeline")
            g == Only(trace, "set_bind_group")
            d == Only(trace, "draw")
            e == Only(trace, "end_render_pass")
        IN /\ b # 0 /\ p # 0 /\ g # 0 /\ d # 0 /\ e # 0
           /\ b < p /\ p < d /\ b < g /\ g < d /\ d < e
           /\ trace[b].obj = "Clear(BLACK)"
           /\ trace[p].obj = "render_pipeline"
           /\ trace[g].obj = "bind_group" /\ trace[g].index = 0
           /\ trace[d].range = <<0, 6, 0, 1>>

\* A redraw drew on a surface that a resize had made non-square.
C5_Witness ==
    /\ last_event = RedrawRequested
    /\ panic = "none"
    /\ last_resize # NoSize
    /\ config.width # config.height
    /\ Indices(trace, "draw") # {}

\* C6 as claimed: once CloseRequested has been handled the control flow is
\* Exit, and no closure invocation after it reconfigures the surface,
\* acquires a frame, submits or presents.
C6_NoWorkAfterClose ==
    /\ last_event = CloseRequested => control_flow = "Exit"
    /\ control_flow = "Exit" /\ last_event # CloseRequested =>
          \A i \in 1..Len(trace) : trace[i].op \notin GpuWork

\* C6 (state part): handling CloseRequested leaves the control flow Exit, and
\* an event that is neither Resized nor RedrawRequested, handled after it,
\* makes no call at all.
C6_ExitState ==
    /\ last_event = CloseRequested => control_flow = "Exit" /\ trace = <<>>
    /\ control_flow = "Exit" /\ last_event.type \in {"Other", "LoopDestroyed"} =>
          trace = <<>>
    /\ pc = "exited" => control_flow = "Exit" /\ last_event = LoopDestroyed

\* C6 as amended: once CloseRequested has been handled the control flow is
\* Exit and stays Exit through every later invocation, although each assigns
\* Wait; the events the loop still delivers are handled by their arms as
\* before, so only those other than Resized and RedrawRequested are without
\* effect.
C6_ExitIsSticky ==
    /\ []C6_ExitState
    /\ [][control_flow = "Exit" => control_flow' = "Exit"]_vars

\* An unrelated event was handled after CloseRequested.
C6_Witness ==
    /\ control_flow = "Exit"
    /\ last_event = OtherEvent

\* C7 as claimed: when the adapter request finds no adapter the process
\* stops with no window created or shown and the event loop never started.
C7_NoWindowOnAdapterFailure ==
    adapter = "None" =>
        /\ pc = "panicked"
        /\ ~window.created
        /\ ~window.visible
        /\ last_event = NoEvent

\* C7 as amended: when the adapter request finds no adapter the process
\* stops there: the window is already created (and visible) and the surface
\* bound to it, but there is no device, buffer, bind group, pipeline or
\* surface configuration, and the closure is never invoked.
C7_AdapterFailureStopsStartup ==
    adapter = "None" =>
        /\ pc = "panicked"
        /\ panic = "Failed to find an appropriate adapter"
        /\ window.created /\ window.visible
        /\ surface.created /\ surface.config = NoConfig
        /\ device = "none"
        /\ uniform_buffer = NoBuffer
        /\ bind_group = NoBindGroup
        /\ render_pipeline = NoPipeline
        /\ config = NoConfig
        /\ control_flow = "Poll"
        /\ last_event = NoEvent
        /\ trace = <<>>

\* The adapter request found nothing while window events were waiting.
C7_Witness ==
    /\ adapter = "None"
    /\ queue # <<>>

\* C8 (state part): a failed acquisition stops the process in that redraw
\* with the failed call as the only call made: no encoder, no render pass,
\* no submit, no present, no reconfigure, no image held.
C8_FailedFrameState ==
    Indices(trace, "get_current_texture_err") # {} =>
        /\ pc = "panicked"
        /\ panic = AcquireFailed
        /\ last_event = RedrawRequested
        /\ Len(trace) = 1
        /\ surface.acquired = 0
        /\ surface.config = config

\* C8: a failed frame acquisition is fatal, without retry or partial frame,
\* and nothing is handled after it.
C8_AcquireFailureFatal ==
    /\ []C8_FailedFrameState
    /\ [][pc # "panicked"]_vars

\* The acquisition failed in a redraw that followed a resize.
C8_Witness ==
    /\ pc = "panicked"
    /\ panic = AcquireFailed
    /\ last_resize # NoSize

\* C9: a redraw that draws acquires one image, records the pass, ends it,
\* submits once and presents that image once, in this order; no image stays
\* acquired after a handler; every acquisition is from a configured surface.
C9_FrameOrder ==
    /\ surface.acquired = 0
    /\ \A i \in 1..Len(trace) :
          trace[i].op \in {"get_current_texture", "get_current_texture_err"} =>
              trace[i].cfg # NoConfig
    /\ last_event = RedrawRequested /\ panic = "none" =>
          LET a == Only(trace, "get_current_texture")
              b == Only(trace, "begin_render_pass")
              e == Only(trace, "end_render_pass")
              f == Only(trace, "finish")
              q == Only(trace, "submit")
              p == Only(trace, "present")
          IN /\ a # 0 /\ b # 0 /\ e # 0 /\ f # 0 /\ q # 0 /\ p # 0
             /\ a < b /\ b < e /\ e < f /\ f < q /\ q < p
             /\ a = 1 /\ p = Len(trace)
             /\ trace[a].index \in Images
             /\ trace[p].index = trace[a].index
             /\ trace[b].index = trace[a].index

\* A redraw presented the last image of the swapchain.
C9_Witness ==
    /\ last_event = RedrawRequested
    /\ panic = "none"
    /\ trace # <<>>
    /\ trace[Len(trace)].op = "present"
    /\ trace[Len(trace)].index = MaxImages

\* C10 as claimed: after an event other than Resized, RedrawRequested and
\* CloseRequested has been handled no call was made and the loop waits for
\* the next event.
C10_OtherLeavesLoopWaiting ==
    last_event.type \in {"Other", "LoopDestroyed"} =>
        /\ trace = <<>>
        /\ control_flow = "Wait"
        /\ pc = "loop"

\* The step is an invocation with an event the match has no arm for.
OtherStep ==
    \/ WindowEventStep /\ Head(queue) = OtherEvent
    \/ LoopDestroyedStep

\* C10 as amended: handling an event other than Resized, RedrawRequested and
\* CloseRequested changes neither the configuration, the surface, the uniform
\* buffer, the bind group nor the pipeline, makes no call and requests no
\* redraw; it leaves the control flow Wait, unless CloseRequested was handled
\* before, when it stays Exit.  RedrawRequested leaves the configuration
\* unchanged as well.
C10_OtherIgnored ==
    /\ [][OtherStep =>
            /\ config' = config
            /\ surface' = surface
            /\ uniform_buffer' = uniform_buffer
            /\ bind_group' = bind_group
            /\ render_pipeline' = render_pipeline
            /\ redraw_requested' = redraw_requested
            /\ trace' = <<>>
            /\ panic' = "none"
            /\ control_flow' = IF control_flow = "Exit" THEN "Exit" ELSE "Wait"]_vars
    /\ [][RedrawStep => config' = config]_vars

\* An unrelated event was handled while the loop ran, a redraw pending.
C10_Witness ==
    /\ last_event = OtherEvent
    /\ control_flow = "Wait"
    /\ redraw_requested
    /\ last_resize # NoSize

====
